---- MODULE Spec2Model ----
(***************************************************************************)
(* Model of the EEG preprocessing application:                             *)
(*   - preprocessing/pipeline.py   preprocess_eeg        (specification Spec)    *)
(*   - preprocessing/visualizer.py plot_* renderers      (specification SpecViz) *)
(*   - app.py                      index / results       (specification SpecWeb) *)
(* Strings are sequences of one-character strings, so that os.path.splitext *)
(* and str.lower are computed character by character.                      *)
(* A recording is modelled by its channel types, its sample rate (Hz, as a *)
(* small integer), its number of samples and the list of processing steps  *)
(* applied to its signal ("proc").  Series objects live in a heap, indexed *)
(* by object identity, so that in-place mutation and copies are visible.   *)
(***************************************************************************)
EXTENDS Integers, Sequences, FiniteSets, TLC

\* ------------------------------------------------------------ bounds
MaxStem == 1
MaxEeg == 2
MaxEog == 1
MaxSfreq == 2
MaxTimes == 3
MaxReq == 3
MaxEpochLen == 2

\* ------------------------------------------------------------ strings
StemChars == {"a", ".", "/"}

Suffixes ==
    { <<>>,
      <<".", "e", "d", "f">>,
      <<".", "E", "D", "F">>,
      <<".", "f", "i", "f">>,
      <<".", "t", "x", "t">>,
      <<".", "e", "d">> }

Strings(S, n) == UNION { [1..k -> S] : k \in 0..n }

Paths == { s \o x : s \in Strings(StemChars, MaxStem), x \in Suffixes }

SetMax(S) == CHOOSE m \in S : \A k \in S : k <= m

\* str.rfind, 1-based: 0 when c does not occur in p
RFind(p, c) ==
    LET S == { i \in 1..Len(p) : p[i] = c }
    IN IF S = {} THEN 0 ELSE SetMax(S)

\* str.lower on the characters the model uses
LowerChar(c) ==
    CASE c = "E" -> "e"
      [] c = "D" -> "d"
      [] c = "F" -> "f"
      [] c = "I" -> "i"
      [] OTHER -> c

Lower(s) == [i \in 1..Len(s) |-> LowerChar(s[i])]

\* os.path.splitext (posixpath / genericpath._splitext): the extension starts
\* at the last dot of the last path component; leading dots of that component
\* do not start an extension.
Splitext(p) ==
    LET sepIndex == RFind(p, "/")
        dotIndex == RFind(p, ".")
    IN IF dotIndex > sepIndex
          /\ \E k \in (sepIndex + 1)..(dotIndex - 1) : p[k] # "."
       THEN [root |-> SubSeq(p, 1, dotIndex - 1), ext |-> SubSeq(p, dotIndex, Len(p))]
       ELSE [root |-> p, ext |-> <<>>]

ExtEdf == <<".", "e", "d", "f">>
ExtFif == <<".", "f", "i", "f">>

\* variant without the final else: every other extension is read as .fif
ReaderM(ext) ==
    IF ext = ExtEdf THEN "read_raw_edf" ELSE "read_raw_fif"

\* pipeline.py 12-18: which reader the extension selects
Reader(ext) ==
    IF ext = ExtEdf THEN "read_raw_edf"
    ELSE IF ext = ExtFif THEN "read_raw_fif"
    ELSE "raise"

\* ------------------------------------------------------------ recordings
\* channel types of a recording: data (EEG) channels followed by EOG channels
ChTypes(nEeg, nEog) == [i \in 1..(nEeg + nEog) |-> IF i <= nEeg THEN "eeg" ELSE "eog"]

Recordings ==
    { [ch_types |-> ChTypes(e, o), sfreq |-> f, n_times |-> n] :
        e \in 0..MaxEeg, o \in 0..MaxEog, f \in 1..MaxSfreq, n \in 1..MaxTimes }

\* the in-memory series object produced by mne.io.read_raw_*(preload=True)
LoadedSeries(rec) ==
    [ kind |-> "raw", ch_types |-> rec.ch_types, sfreq |-> rec.sfreq,
      n_times |-> rec.n_times, windows |-> <<>>, proc |-> <<"loaded">>,
      meas_date |-> TRUE ]

\* mne.pick_types(info, eog=True): indices (0-based) of the EOG channels
PickEog(s) == { i - 1 : i \in { j \in 1..Len(s.ch_types) : s.ch_types[j] = "eog" } }

\* channels ICA.fit decomposes (data channels only)
NData(s) == Cardinality({ j \in 1..Len(s.ch_types) : s.ch_types[j] = "eeg" })

\* variant without the cap: the requested count is used as it is
NIcaM(n_comp, n_chan) == n_comp

\* pipeline.py 25: n_ica = min(n_components, n_chan)
NIca(n_comp, n_chan) == IF n_comp <= n_chan THEN n_comp ELSE n_chan

\* variant with >= for >: scoring is attempted without any EOG channel
HasEogM(eog_chs) == Cardinality(eog_chs) >= 0

\* pipeline.py 30: the test that decides whether scoring is attempted
HasEog(eog_chs) == Cardinality(eog_chs) > 0

\* variant storing the EOG channel picks instead of the component indices
ExcludeFromM(eog_inds, eog_chs) == eog_chs

\* pipeline.py 33: the value stored in ica.exclude after a successful scoring
ExcludeFrom(eog_inds, eog_chs) == eog_inds

\* ------------------------------------------------------------ epoching
\* mne.make_fixed_length_events(raw, duration): event samples 0, step, 2*step, ...
\* up to n_times - step, with step = sfreq * duration
FixedLengthEvents(s, duration) ==
    LET step == s.sfreq * duration
        stop == s.n_times - step
    IN { k * step : k \in { j \in 0..s.n_times : j * step <= stop } }

\* mne.Epochs(raw, events, tmin=0, tmax=duration): each window holds the samples
\* event + round(tmin*sfreq) .. event + round(tmax*sfreq), both ends included
EpochWindow(s, ev, duration) == <<ev, ev + s.sfreq * duration>>

EpochSamples(s, duration) == s.sfreq * duration + 1

\* windows that fit in the recording are kept (preload=True drops the others)
KeptEvents(s, duration) ==
    { ev \in FixedLengthEvents(s, duration) : EpochWindow(s, ev, duration)[2] <= s.n_times - 1 }

RECURSIVE SortedSeq(_)
SortedSeq(S) ==
    IF S = {} THEN <<>>
    ELSE LET m == CHOOSE x \in S : \A y \in S : x <= y
         IN <<m>> \o SortedSeq(S \ {m})

EpochedSeries(s, duration) ==
    LET evs == SortedSeq(KeptEvents(s, duration))
    IN [ kind |-> "epochs", ch_types |-> s.ch_types, sfreq |-> s.sfreq,
         n_times |-> EpochSamples(s, duration),
         windows |-> [i \in 1..Len(evs) |-> EpochWindow(s, evs[i], duration)],
         proc |-> Append(s.proc, "epoched"), meas_date |-> s.meas_date ]

\* ------------------------------------------------------------ preprocess_eeg
\* state of one preprocess_eeg call
VARIABLES pc, args, heap, raw, cleaned, ica, calls, files, exc, loaded, detect, result
\* state of one renderer call (visualizer.py)
VARIABLES vpc, vfn, vseries, vdata, vi, vtraces, vexc, vartifact
\* state of the web layer (app.py): requests, upload and output folders
VARIABLES wpc, wname, wfile, werr, uploads, output, writes, wpage, lockedPaths, clock, wclean

pipeVars == <<pc, args, heap, raw, cleaned, ica, calls, files, exc, loaded, detect, result>>
vizVars == <<vpc, vfn, vseries, vdata, vi, vtraces, vexc, vartifact>>
webVars == <<wpc, wname, wfile, werr, uploads, output, writes, wpage, lockedPaths, clock, wclean>>
vars == <<pipeVars, vizVars, webVars>>

NoIca == [n_components |-> -1, fitted |-> FALSE, exclude |-> {}]
NoFile == [shape |-> <<0, 0>>, content |-> "absent"]
NoResult == [raw |-> 0, cleaned |-> 0, exclude |-> {}]
NoSeries == [ kind |-> "none", ch_types |-> <<>>, sfreq |-> 0, n_times |-> 0,
              windows |-> <<>>, proc |-> <<>>, meas_date |-> FALSE ]

NoArgs == [input_path |-> <<>>, n_components |-> 0, epoch |-> FALSE, epoch_length |-> 0]

PipeIdle ==
    /\ pc = "idle"
    /\ args = NoArgs
    /\ heap = <<>>
    /\ raw = 0
    /\ cleaned = 0
    /\ ica = NoIca
    /\ calls = <<>>
    /\ files = [fif |-> NoFile, csv |-> NoFile]
    /\ exc = [type |-> "none", at |-> "none"]
    /\ loaded = NoSeries
    /\ detect = "none"
    /\ result = NoResult

VizIdle ==
    /\ vpc = "idle"
    /\ vfn = "none"
    /\ vseries = [n_rows |-> 0, sfreq |-> 0, n_times |-> 0]
    /\ vdata = <<0, 0>>
    /\ vi = 0
    /\ vtraces = <<>>
    /\ vexc = "none"
    /\ vartifact = [written |-> FALSE, n_traces |-> 0]

WebIdle ==
    /\ wpc = <<>>
    /\ wname = <<>>
    /\ wfile = <<>>
    /\ werr = <<>>
    /\ uploads = {}
    /\ output = {}
    /\ writes = {}
    /\ wpage = <<>>
    /\ lockedPaths = {}
    /\ clock = 0
    /\ wclean = <<>>

PipeInit ==
    /\ pc = "start"
    /\ args \in [ input_path : Paths,
                  n_components : 1..MaxReq,
                  epoch : BOOLEAN,
                  epoch_length : 1..MaxEpochLen ]
    /\ heap = <<>>
    /\ raw = 0
    /\ cleaned = 0
    /\ ica = NoIca
    /\ calls = <<>>
    /\ files = [fif |-> NoFile, csv |-> NoFile]
    /\ exc = [type |-> "none", at |-> "none"]
    /\ loaded = NoSeries
    /\ detect = "none"
    /\ result = NoResult

Init == PipeInit /\ VizIdle /\ WebIdle

Raise(type, at) ==
    /\ pc' = "raised"
    /\ exc' = [type |-> type, at |-> at]

\* pipeline.py 12-18: select the reader by extension and load the recording
ReadRecording ==
    /\ pc = "start"
    /\ LET ext == Lower(Splitext(args.input_path).ext)
           reader == Reader(ext)
       IN \/ /\ reader = "raise"
             /\ Raise("ValueError", "format")
             /\ UNCHANGED <<heap, raw, calls, loaded>>
          \/ /\ reader # "raise"
             /\ calls' = Append(calls, reader)
             /\ \/ \E rec \in Recordings :
                      /\ Len(rec.ch_types) >= 1
                      /\ heap' = Append(heap, LoadedSeries(rec))
                      /\ raw' = Len(heap) + 1
                      /\ loaded' = LoadedSeries(rec)
                      /\ pc' = "filter"
                      /\ UNCHANGED exc
                \/ /\ Raise("IOFailure", reader)
                   /\ UNCHANGED <<heap, raw, loaded>>
    /\ UNCHANGED <<args, cleaned, ica, files, detect, result>>
    /\ UNCHANGED <<vizVars, webVars>>

\* pipeline.py 21 with a swallowed failure: the run continues unfiltered
FilterSeriesM ==
    /\ pc = "filter"
    /\ calls' = Append(calls, "filter")
    /\ \/ heap' = [heap EXCEPT ![raw].proc = Append(@, "filtered")]
       \/ UNCHANGED heap
    /\ pc' = "ica"
    /\ UNCHANGED <<args, raw, cleaned, ica, files, exc, loaded, detect, result>>
    /\ UNCHANGED <<vizVars, webVars>>

\* pipeline.py 21: raw.filter(l_freq, h_freq) filters the preloaded series in
\* place (the object bound to raw is the one that was loaded)
FilterSeries ==
    /\ pc = "filter"
    /\ calls' = Append(calls, "filter")
    /\ \/ /\ heap' = [heap EXCEPT ![raw].proc = Append(@, "filtered")]
          /\ pc' = "ica"
          /\ UNCHANGED exc
       \/ /\ Raise("FilterError", "filter")
          /\ UNCHANGED heap
    /\ UNCHANGED <<args, raw, cleaned, ica, files, loaded, detect, result>>
    /\ UNCHANGED <<vizVars, webVars>>

\* pipeline.py 24-27: build the ICA model with min(requested, channels)
\* components and fit it; the fit needs 1 <= components <= data channels
IcaFit ==
    /\ pc = "ica"
    /\ LET n_chan == Len(heap[raw].ch_types)
           n_ica == NIca(args.n_components, n_chan)
       IN /\ calls' = Append(calls, "fit")
          /\ \/ /\ n_ica >= 1
                /\ n_ica <= NData(heap[raw])
                /\ ica' = [n_components |-> n_ica, fitted |-> TRUE, exclude |-> {}]
                /\ pc' = "detect"
                /\ UNCHANGED exc
             \/ /\ ica' = [n_components |-> n_ica, fitted |-> FALSE, exclude |-> {}]
                /\ Raise("FitError", "fit")
    /\ UNCHANGED <<args, heap, raw, cleaned, files, loaded, detect, result>>
    /\ UNCHANGED <<vizVars, webVars>>

\* variant without the except clause: a scoring failure propagates
ScoringErrorHandlerM == "propagate"

\* pipeline.py 34-35: what the handler of a scoring failure does
ScoringErrorHandler == "recover"

\* pipeline.py 29-37: look for EOG channels; score the components against them
\* when there are any; an error of the scoring empties the exclude list
DetectArtifacts ==
    /\ pc = "detect"
    /\ LET eog_chs == PickEog(heap[raw])
       IN IF HasEog(eog_chs)
          THEN /\ calls' = calls \o <<"pick_types", "find_bads_eog">>
               /\ \/ /\ eog_chs # {}
                     /\ \E eog_inds \in SUBSET (0..(ica.n_components - 1)) :
                           ica' = [ica EXCEPT !.exclude = ExcludeFrom(eog_inds, eog_chs)]
                     /\ detect' = "detected"
                     /\ pc' = "apply"
                     /\ UNCHANGED exc
                  \/ /\ detect' = "failed"
                     /\ IF ScoringErrorHandler = "recover"
                        THEN /\ ica' = [ica EXCEPT !.exclude = {}]
                             /\ pc' = "apply"
                             /\ UNCHANGED exc
                        ELSE /\ Raise("ScoringError", "find_bads_eog")
                             /\ UNCHANGED ica
          ELSE /\ calls' = Append(calls, "pick_types")
               /\ ica' = [ica EXCEPT !.exclude = {}]
               /\ detect' = "skipped"
               /\ pc' = "apply"
               /\ UNCHANGED exc
    /\ UNCHANGED <<args, heap, raw, cleaned, files, loaded, result>>
    /\ UNCHANGED <<vizVars, webVars>>

\* pipeline.py 38: cleaned = ica.apply(raw.copy()): the copy is a new object,
\* reconstructed in place; the object bound to raw is not touched
ApplyIca ==
    /\ pc = "apply"
    /\ calls' = Append(calls, "apply")
    /\ heap' = Append(heap, [heap[raw] EXCEPT !.proc = Append(@, "reconstructed")])
    /\ cleaned' = Len(heap) + 1
    /\ pc' = "epoch"
    /\ UNCHANGED <<args, raw, ica, files, exc, loaded, detect, result>>
    /\ UNCHANGED <<vizVars, webVars>>

\* pipeline.py 41-44: optional epoching into fixed-length windows
Epoching ==
    /\ pc = "epoch"
    /\ IF args.epoch
       THEN IF FixedLengthEvents(heap[cleaned], args.epoch_length) = {}
            THEN /\ calls' = Append(calls, "make_fixed_length_events")
                 /\ Raise("ValueError", "make_fixed_length_events")
                 /\ UNCHANGED <<heap, cleaned>>
            ELSE /\ calls' = calls \o <<"make_fixed_length_events", "Epochs">>
                 /\ heap' = Append(heap, EpochedSeries(heap[cleaned], args.epoch_length))
                 /\ cleaned' = Len(heap) + 1
                 /\ pc' = "save_fif"
                 /\ UNCHANGED exc
       ELSE /\ pc' = "save_fif"
            /\ UNCHANGED <<heap, cleaned, calls, exc>>
    /\ UNCHANGED <<args, raw, ica, files, loaded, detect, result>>
    /\ UNCHANGED <<vizVars, webVars>>

\* pipeline.py 48-49 / 54-55: clear the measurement date, write the structured file
SaveFif ==
    /\ pc = "save_fif"
    /\ calls' = Append(calls, "save_fif")
    /\ heap' = [heap EXCEPT ![cleaned].meas_date = FALSE]
    /\ \/ /\ files' = [files EXCEPT !.fif =
                          [shape |-> <<Len(heap[cleaned].ch_types), heap[cleaned].n_times>>,
                           content |-> heap[cleaned].kind]]
          /\ pc' = "save_csv"
          /\ UNCHANGED exc
       \/ /\ Raise("IOFailure", "save_fif")
          /\ UNCHANGED files
    /\ UNCHANGED <<args, raw, cleaned, ica, loaded, detect, result>>
    /\ UNCHANGED <<vizVars, webVars>>

\* pipeline.py 51-52 / 57-58: write the text matrix: the channels x samples
\* matrix of a continuous series, the mean over the windows of an epoched one
CsvData(s) ==
    IF s.kind = "raw"
    THEN [shape |-> <<Len(s.ch_types), s.n_times>>, content |-> "matrix"]
    ELSE [shape |-> <<Len(s.ch_types), s.n_times>>, content |-> "epoch_mean"]

SaveCsv ==
    /\ pc = "save_csv"
    /\ calls' = Append(calls, "save_csv")
    /\ \/ /\ files' = [files EXCEPT !.csv = CsvData(heap[cleaned])]
          /\ pc' = "return"
          /\ UNCHANGED exc
       \/ /\ Raise("IOFailure", "save_csv")
          /\ UNCHANGED files
    /\ UNCHANGED <<args, heap, raw, cleaned, ica, loaded, detect, result>>
    /\ UNCHANGED <<vizVars, webVars>>

\* pipeline.py 61: return raw, cleaned, ica, ica.exclude
Return ==
    /\ pc = "return"
    /\ result' = [raw |-> raw, cleaned |-> cleaned, exclude |-> ica.exclude]
    /\ pc' = "returned"
    /\ UNCHANGED <<args, heap, raw, cleaned, ica, calls, files, exc, loaded, detect>>
    /\ UNCHANGED <<vizVars, webVars>>

Next ==
    \/ ReadRecording
    \/ FilterSeries
    \/ IcaFit
    \/ DetectArtifacts
    \/ ApplyIca
    \/ Epoching
    \/ SaveFif
    \/ SaveCsv
    \/ Return

Spec == Init /\ [][Next]_vars

\* ------------------------------------------------------------ visualizer.py
\* rows and samples of the series handed to a renderer
MaxRows == 11
MaxPlotTimes == 11

\* visualizer.py 6, 19: duration=10, n_channels=5
DefaultDuration == 10
DefaultNChannels == 5
\* visualizer.py 12, 25: vertical step between channels
SignalOffset == 100
\* visualizer.py 32, 36: n_components=10, offset = 200
DefaultPlotComponents == 10
IcaOffset == 200

Min(a, b) == IF a <= b THEN a ELSE b

SignalPlots == {"plot_raw_signal", "plot_cleaned_signal"}

\* a slice [:n] of an axis of length len keeps min(n, len) entries
SliceLen(n, len) == Min(n, len)

VizInit ==
    /\ vpc = "start"
    /\ vfn \in SignalPlots \cup {"plot_ica_components"}
    /\ vseries \in [n_rows : 1..MaxRows, sfreq : 1..MaxSfreq, n_times : 1..MaxPlotTimes]
    /\ vdata = <<0, 0>>
    /\ vi = 0
    /\ vtraces = <<>>
    /\ vexc = "none"
    /\ vartifact = [written |-> FALSE, n_traces |-> 0]

InitViz == PipeIdle /\ VizInit /\ WebIdle

\* visualizer.py 8, 21: data, times = raw[:n_channels, :int(duration * sfreq)]
PlotSignalExtract ==
    /\ vpc = "start"
    /\ vfn \in SignalPlots
    /\ vdata' = << SliceLen(DefaultNChannels, vseries.n_rows),
                   SliceLen(DefaultDuration * vseries.sfreq, vseries.n_times) >>
    /\ vi' = 0
    /\ vpc' = "loop"
    /\ UNCHANGED <<vfn, vseries, vtraces, vexc, vartifact>>
    /\ UNCHANGED <<pipeVars, webVars>>

\* visualizer.py 10-12, 23-25: for i in range(n_channels): add data[i] + i * 100;
\* data[i] raises IndexError when i is not a row of data
PlotSignalTrace ==
    /\ vpc = "loop"
    /\ vfn \in SignalPlots
    /\ vi < DefaultNChannels
    /\ IF vi < vdata[1]
       THEN /\ vtraces' = Append(vtraces, [row |-> vi, offset |-> vi * SignalOffset, name |-> vi])
            /\ vi' = vi + 1
            /\ UNCHANGED <<vpc, vexc>>
       ELSE /\ vpc' = "raised"
            /\ vexc' = "IndexError"
            /\ UNCHANGED <<vtraces, vi>>
    /\ UNCHANGED <<vfn, vseries, vdata, vartifact>>
    /\ UNCHANGED <<pipeVars, webVars>>

\* visualizer.py 13-16, 26-29: lay out the figure and write the artifact
PlotSignalWrite ==
    /\ vpc = "loop"
    /\ vfn \in SignalPlots
    /\ vi = DefaultNChannels
    /\ vartifact' = [written |-> TRUE, n_traces |-> Len(vtraces)]
    /\ vpc' = "done"
    /\ UNCHANGED <<vfn, vseries, vdata, vi, vtraces, vexc>>
    /\ UNCHANGED <<pipeVars, webVars>>

\* visualizer.py 34-36: sources = ica.get_sources(raw).get_data()
PlotIcaSources ==
    /\ vpc = "start"
    /\ vfn = "plot_ica_components"
    /\ vdata' = <<vseries.n_rows, vseries.n_times>>
    /\ vi' = 0
    /\ vpc' = "loop"
    /\ UNCHANGED <<vfn, vseries, vtraces, vexc, vartifact>>
    /\ UNCHANGED <<pipeVars, webVars>>

\* visualizer.py 37-39: for i in range(min(n_components, sources.shape[0]))
PlotIcaTrace ==
    /\ vpc = "loop"
    /\ vfn = "plot_ica_components"
    /\ vi < Min(DefaultPlotComponents, vdata[1])
    /\ vtraces' = Append(vtraces, [row |-> vi, offset |-> vi * IcaOffset, name |-> vi + 1])
    /\ vi' = vi + 1
    /\ UNCHANGED <<vpc, vfn, vseries, vdata, vexc, vartifact>>
    /\ UNCHANGED <<pipeVars, webVars>>

\* visualizer.py 40-43: lay out the figure and write the artifact
PlotIcaWrite ==
    /\ vpc = "loop"
    /\ vfn = "plot_ica_components"
    /\ vi = Min(DefaultPlotComponents, vdata[1])
    /\ vartifact' = [written |-> TRUE, n_traces |-> Len(vtraces)]
    /\ vpc' = "done"
    /\ UNCHANGED <<vfn, vseries, vdata, vi, vtraces, vexc>>
    /\ UNCHANGED <<pipeVars, webVars>>

NextViz ==
    \/ PlotSignalExtract
    \/ PlotSignalTrace
    \/ PlotSignalWrite
    \/ PlotIcaSources
    \/ PlotIcaTrace
    \/ PlotIcaWrite

SpecViz == InitViz /\ [][NextViz]_vars

\* ------------------------------------------------------------ app.py
NReq == 2
MaxName == 1

Req == 1..NReq

\* app.py 9-10
UploadFolder == <<"u", "p", "l", "o", "a", "d", "s">>
OutputFolder == <<"o", "u", "t", "p", "u", "t">>

\* app.py 11: ALLOWED_EXTENSIONS
AllowedExtensions == { <<"e", "d", "f">>, <<"f", "i", "f">> }

\* uploaded file names (file.filename as sent by the client): a non-empty stem
\* and an extension
NameChars == {"a"}

NameSuffixes == { <<".", "e", "d", "f">>, <<".", "f", "i", "f">>, <<".", "t", "x", "t">> }

FileNames ==
    { s \o x : s \in Strings(NameChars, MaxName) \ {<<>>}, x \in NameSuffixes }

\* app.py 22-24: allowed_file
allowed_file(filename) ==
    /\ RFind(filename, ".") > 0
    /\ Lower(SubSeq(filename, RFind(filename, ".") + 1, Len(filename))) \in AllowedExtensions

RECURSIVE LStrip(_, _)
LStrip(s, C) == IF s # <<>> /\ Head(s) \in C THEN LStrip(Tail(s), C) ELSE s

RECURSIVE RStrip(_, _)
RStrip(s, C) ==
    IF s # <<>> /\ s[Len(s)] \in C THEN RStrip(SubSeq(s, 1, Len(s) - 1), C) ELSE s

Strip(s, C) == RStrip(LStrip(s, C), C)

\* "_".join(s.split()) on a string without leading or trailing blanks
RECURSIVE JoinWords(_)
JoinWords(s) ==
    IF s = <<>> THEN <<>>
    ELSE IF Head(s) = " "
         THEN IF Len(s) > 1 /\ s[2] = " "
              THEN JoinWords(Tail(s))
              ELSE <<"_">> \o JoinWords(Tail(s))
         ELSE <<Head(s)>> \o JoinWords(Tail(s))

\* app.py 62: werkzeug's secure_filename on the characters the model uses:
\* path separators become blanks, words are joined by "_", dots and
\* underscores are stripped from both ends
secure_filename(filename) ==
    LET blanks == [i \in 1..Len(filename) |-> IF filename[i] = "/" THEN " " ELSE filename[i]]
    IN Strip(JoinWords(Strip(blanks, {" "})), {".", "_"})

\* os.path.join of a folder and a name
PathJoin(a, b) ==
    IF b # <<>> /\ b[1] = "/" THEN b
    ELSE IF a = <<>> \/ a[Len(a)] = "/" THEN a \o b
    ELSE a \o <<"/">> \o b

\* app.py 80-86: the paths of one results request
upload_path(filename) == PathJoin(UploadFolder, filename)
output_basename(filename) == Splitext(filename).root
cleaned_fif(filename) == PathJoin(OutputFolder, output_basename(filename) \o <<"_", "c", "l", "e", "a", "n", "e", "d", ".", "f", "i", "f">>)
cleaned_csv(filename) == PathJoin(OutputFolder, output_basename(filename) \o <<"_", "c", "l", "e", "a", "n", "e", "d", ".", "c", "s", "v">>)
raw_plot_path(filename) == PathJoin(OutputFolder, output_basename(filename) \o <<"_", "r", "a", "w", ".", "h", "t", "m", "l">>)
cleaned_plot_path(filename) == PathJoin(OutputFolder, output_basename(filename) \o <<"_", "c", "l", "e", "a", "n", "e", "d", ".", "h", "t", "m", "l">>)
ica_plot_path(filename) == PathJoin(OutputFolder, output_basename(filename) \o <<"_", "i", "c", "a", ".", "h", "t", "m", "l">>)

OutputPaths(filename) ==
    { cleaned_fif(filename), cleaned_csv(filename), raw_plot_path(filename),
      cleaned_plot_path(filename), ica_plot_path(filename) }

\* app.py 100: the byte size an ICA plot must exceed to count as present
SizeThreshold == 500

\* byte sizes of the files the handlers write
FileSize == 5000
PlotSizes == {500, 5000}

\* the clock counts the retention periods (max_age, app.py 26-29) that have
\* elapsed: a file is older than max_age for a call that read the time at
\* `now` exactly when now is later than the file's modification time
MaxClock == 1

\* sets of paths whose files cannot be removed (os.remove raises)
LockChoices == { {}, { PathJoin(UploadFolder, <<"a", ".", "e", "d", "f">>),
                       PathJoin(OutputFolder, <<"a", "_", "i", "c", "a", ".", "h", "t", "m", "l">>) } }

NoPage == [rendered |-> FALSE, error |-> FALSE, raw_plot_exists |-> FALSE,
           cleaned_plot_exists |-> FALSE, ica_plot_exists |-> FALSE,
           flash_deleted |-> 0, cleanup_deleted |-> 0]

\* the locals of a cleanup_old_files call (app.py 26-40): the folder, now, the
\* names os.listdir returned that the loop has not visited yet, the path the
\* loop is at and the number of names in deleted_files (both calls of a handler)
NoCleanup == [folder |-> "none", now |-> 0, todo |-> {}, fpath |-> <<>>,
              deleted |-> 0, return_to |-> "none"]

NewFile(path, size) ==
    [path |-> path, mtime |-> clock, locked |-> path \in lockedPaths, size |-> size]

\* the names uploads are saved under (app.py 61-64), which are the names the
\* redirect of line 65 asks results for
SavedNames == { secure_filename(n) : n \in { m \in FileNames : allowed_file(m) } }

\* files an earlier request left behind, written one retention period ago
Leftover(path) ==
    [path |-> path, mtime |-> -1, locked |-> path \in lockedPaths, size |-> FileSize]

\* uploads saved by earlier requests, within the retention period
Uploaded(path) ==
    [path |-> path, mtime |-> 0, locked |-> path \in lockedPaths, size |-> FileSize]

LeftoverUploads == { Uploaded(upload_path(n)) : n \in SavedNames }
LeftoverOutput == { Leftover(cleaned_fif(<<"a", ".", "e", "d", "f">>)) }

\* the requests clients send: POST / with a file (app.py 42-45) or
\* GET /results/<filename> (app.py 72-73), which is what the redirect of line 65
\* makes the client ask for
Requests ==
    { [at |-> "post", filename |-> n] : n \in FileNames }
    \cup { [at |-> "results", filename |-> n] : n \in SavedNames }

WebInit ==
    /\ \E reqs \in [Req -> Requests] :
          /\ wpc = [r \in Req |-> reqs[r].at]
          /\ wname = [r \in Req |-> reqs[r].filename]
          /\ wfile = [r \in Req |-> IF reqs[r].at = "results" THEN reqs[r].filename ELSE <<>>]
    /\ werr = [r \in Req |-> FALSE]
    /\ lockedPaths \in LockChoices
    /\ \E leftovers \in BOOLEAN :
          /\ uploads = IF leftovers THEN LeftoverUploads ELSE {}
          /\ output = IF leftovers THEN LeftoverOutput ELSE {}
    /\ writes = {}
    /\ wpage = [r \in Req |-> NoPage]
    /\ clock = 0
    /\ wclean = [r \in Req |-> NoCleanup]

InitWeb == PipeIdle /\ VizIdle /\ WebInit

\* a file written at path replaces the file at that path
WriteOutput(folder, path, size) ==
    { f \in folder : f.path # path } \cup { NewFile(path, size) }

Exists(folder, path) == \E f \in folder : f.path = path

FileAt(folder, path) == CHOOSE f \in folder : f.path = path

SizeOf(folder, path) == FileAt(folder, path).size

Folder(name) == IF name = "uploads" THEN uploads ELSE output

SetFolder(name, files_left) ==
    IF name = "uploads"
    THEN uploads' = files_left /\ UNCHANGED output
    ELSE output' = files_left /\ UNCHANGED uploads

\* one more retention period elapses; it is observable only when a file on
\* disk is not yet older than the period
TimePasses ==
    /\ clock < MaxClock
    /\ \E f \in uploads \cup output : f.mtime = clock
    /\ clock' = clock + 1
    /\ UNCHANGED <<wpc, wname, wfile, werr, uploads, output, writes, wpage, lockedPaths, wclean>>
    /\ UNCHANGED <<pipeVars, vizVars>>

\* app.py 47-48, 76-77: the positions from which cleanup_old_files is called,
\* the folder each call sweeps and the position it returns to
CallPcs == {"post", "post_output", "results", "results_output"}

FolderAt(at) == IF at \in {"post", "results"} THEN "uploads" ELSE "output"

ReturnTo(at) ==
    CASE at = "post" -> "post_output"
      [] at = "post_output" -> "post_file"
      [] at = "results" -> "results_output"
      [] at = "results_output" -> "preprocess"

\* app.py 31, 40, 49-53, 78: the for loop goes on to the next name or, when
\* none is left, the call returns; after the second call of a handler the
\* length of deleted_uploads + deleted_outputs is what the handler reports
NextName(r, locals) ==
    IF locals.todo # {}
    THEN /\ wpc' = [wpc EXCEPT ![r] = "isfile"]
         /\ wclean' = [wclean EXCEPT ![r] = [locals EXCEPT !.fpath = <<>>]]
         /\ UNCHANGED wpage
    ELSE /\ wpc' = [wpc EXCEPT ![r] = locals.return_to]
         /\ CASE locals.return_to = "post_file" ->
                   /\ wpage' = [wpage EXCEPT ![r] = [@ EXCEPT !.flash_deleted = locals.deleted]]
                   /\ wclean' = [wclean EXCEPT ![r] = NoCleanup]
              [] locals.return_to = "preprocess" ->
                   /\ wpage' = [wpage EXCEPT ![r] = [@ EXCEPT !.cleanup_deleted = locals.deleted]]
                   /\ wclean' = [wclean EXCEPT ![r] = NoCleanup]
              [] OTHER ->
                   /\ wclean' = [wclean EXCEPT ![r] = [NoCleanup EXCEPT !.deleted = locals.deleted]]
                   /\ UNCHANGED wpage

\* app.py 26-30: cleanup_old_files is entered: now = time.time()
cleanup_old_files(r) ==
    /\ wpc[r] \in CallPcs
    /\ wclean' = [wclean EXCEPT ![r] =
                     [@ EXCEPT !.folder = FolderAt(wpc[r]), !.now = clock,
                               !.return_to = ReturnTo(wpc[r])]]
    /\ wpc' = [wpc EXCEPT ![r] = "listdir"]
    /\ UNCHANGED <<wname, wfile, werr, uploads, output, writes, wpage, lockedPaths, clock>>
    /\ UNCHANGED <<pipeVars, vizVars>>

\* app.py 31: os.listdir(folder): the names in the folder at this moment
cleanup_listdir(r) ==
    /\ wpc[r] = "listdir"
    /\ NextName(r, [wclean[r] EXCEPT !.todo = { f.path : f \in Folder(wclean[r].folder) }])
    /\ UNCHANGED <<wname, wfile, werr, uploads, output, writes, lockedPaths, clock>>
    /\ UNCHANGED <<pipeVars, vizVars>>

\* app.py 31-33: the loop takes a name (os.listdir gives them in arbitrary
\* order); os.path.isfile is false for a name that is no longer there
cleanup_isfile(r) ==
    /\ wpc[r] = "isfile"
    /\ \E fpath \in wclean[r].todo :
          LET locals == [wclean[r] EXCEPT !.todo = @ \ {fpath}]
          IN IF Exists(Folder(locals.folder), fpath)
             THEN /\ wpc' = [wpc EXCEPT ![r] = "getmtime"]
                  /\ wclean' = [wclean EXCEPT ![r] = [locals EXCEPT !.fpath = fpath]]
                  /\ UNCHANGED wpage
             ELSE NextName(r, locals)
    /\ UNCHANGED <<wname, wfile, werr, uploads, output, writes, lockedPaths, clock>>
    /\ UNCHANGED <<pipeVars, vizVars>>

\* app.py 34: now - os.path.getmtime(fpath) > max_age; getmtime is outside the
\* try: for a file removed since isfile it raises and the error leaves the
\* handler (the request ends with a server error)
cleanup_getmtime(r) ==
    /\ wpc[r] = "getmtime"
    /\ LET locals == wclean[r]
       IN IF ~Exists(Folder(locals.folder), locals.fpath)
          THEN /\ wpc' = [wpc EXCEPT ![r] = "error500"]
               /\ wclean' = [wclean EXCEPT ![r] = NoCleanup]
               /\ UNCHANGED wpage
          ELSE IF locals.now > FileAt(Folder(locals.folder), locals.fpath).mtime
               THEN /\ wpc' = [wpc EXCEPT ![r] = "remove"]
                    /\ UNCHANGED <<wclean, wpage>>
               ELSE NextName(r, locals)
    /\ UNCHANGED <<wname, wfile, werr, uploads, output, writes, lockedPaths, clock>>
    /\ UNCHANGED <<pipeVars, vizVars>>

\* app.py 35-39: os.remove(fpath) and deleted_files.append(fname); when
\* os.remove raises (the file cannot be removed, or is gone) the error is
\* swallowed and the name is not reported
cleanup_remove(r) ==
    /\ wpc[r] = "remove"
    /\ LET locals == wclean[r]
           folder == Folder(locals.folder)
       IN IF Exists(folder, locals.fpath) /\ ~FileAt(folder, locals.fpath).locked
          THEN /\ SetFolder(locals.folder, { f \in folder : f.path # locals.fpath })
               /\ NextName(r, [locals EXCEPT !.deleted = @ + 1])
          ELSE /\ UNCHANGED <<uploads, output>>
               /\ NextName(r, locals)
    /\ UNCHANGED <<wname, wfile, werr, writes, lockedPaths, clock>>
    /\ UNCHANGED <<pipeVars, vizVars>>

\* app.py 54-68: POST /: check the extension, save the upload under its
\* secured name and redirect to its results page.  file.save is outside any
\* try: over a file that cannot be removed the write may be refused as well
\* (immutable file) or go through (read-only directory entry); a refused write
\* ends the request with a server error
index(r) ==
    /\ wpc[r] = "post_file"
    /\ IF allowed_file(wname[r])
       THEN LET filename == secure_filename(wname[r])
                filepath == upload_path(filename)
            IN \/ /\ wfile' = [wfile EXCEPT ![r] = filename]
                  /\ uploads' = WriteOutput(uploads, filepath, FileSize)
                  /\ wpc' = [wpc EXCEPT ![r] = "redirect"]
               \/ /\ Exists(uploads, filepath) /\ FileAt(uploads, filepath).locked
                  /\ wpc' = [wpc EXCEPT ![r] = "error500"]
                  /\ UNCHANGED <<wfile, uploads>>
       ELSE /\ wpc' = [wpc EXCEPT ![r] = "done"]
            /\ UNCHANGED <<wfile, uploads>>
    /\ UNCHANGED <<wname, werr, output, writes, wpage, lockedPaths, clock, wclean>>
    /\ UNCHANGED <<pipeVars, vizVars>>

\* app.py 101-103: an exception in the try block is caught: the error message
\* is set and the rest of the block is skipped
Caught(r) ==
    /\ werr' = [werr EXCEPT ![r] = TRUE]
    /\ wpc' = [wpc EXCEPT ![r] = "render"]

\* one step of the try block (app.py 90-103) that writes path, or raises: the
\* step's own code may raise (may_raise), and so may the write over a file that
\* cannot be removed
TryStep(r, at, path, next, may_raise, sizes) ==
    /\ wpc[r] = at
    /\ \/ /\ \E size \in sizes : output' = WriteOutput(output, path, size)
          /\ writes' = writes \cup {<<path, r>>}
          /\ wpc' = [wpc EXCEPT ![r] = next]
          /\ UNCHANGED werr
       \/ /\ may_raise \/ (Exists(output, path) /\ FileAt(output, path).locked)
          /\ Caught(r)
          /\ UNCHANGED <<output, writes>>
    /\ UNCHANGED <<wname, wfile, uploads, wpage, lockedPaths, clock, wclean>>
    /\ UNCHANGED <<pipeVars, vizVars>>

\* app.py 92, pipeline.py 12-18: preprocess_eeg reads the upload into memory
\* (preload=True): it raises if the upload is gone or its extension selects no
\* reader
preprocess_read(r) ==
    /\ wpc[r] = "preprocess"
    /\ \/ /\ Exists(uploads, upload_path(wfile[r]))
          /\ Reader(Lower(Splitext(upload_path(wfile[r])).ext)) # "raise"
          /\ wpc' = [wpc EXCEPT ![r] = "fif"]
          /\ UNCHANGED werr
       \/ Caught(r)
    /\ UNCHANGED <<wname, wfile, uploads, output, writes, wpage, lockedPaths, clock, wclean>>
    /\ UNCHANGED <<pipeVars, vizVars>>

\* app.py 92, pipeline.py 20-49: filter, decomposition, scoring and
\* reconstruction work on the series in memory; then the structured export
preprocess_fif(r) == TryStep(r, "fif", cleaned_fif(wfile[r]), "csv", TRUE, {FileSize})

\* app.py 92, pipeline.py 50-58: the text export
preprocess_csv(r) == TryStep(r, "csv", cleaned_csv(wfile[r]), "plot_raw", FALSE, {FileSize})

\* app.py 94-96
plot_raw(r) == TryStep(r, "plot_raw", raw_plot_path(wfile[r]), "plot_cleaned", TRUE, {FileSize})
plot_cleaned(r) == TryStep(r, "plot_cleaned", cleaned_plot_path(wfile[r]), "plot_ica", FALSE, {FileSize})
plot_ica(r) == TryStep(r, "plot_ica", ica_plot_path(wfile[r]), "exists_raw", FALSE, PlotSizes)

\* app.py 98: raw_plot_exists = os.path.exists(raw_plot_path)
results_exists_raw(r) ==
    /\ wpc[r] = "exists_raw"
    /\ wpage' = [wpage EXCEPT ![r] =
                    [@ EXCEPT !.raw_plot_exists = Exists(output, raw_plot_path(wfile[r]))]]
    /\ wpc' = [wpc EXCEPT ![r] = "exists_cleaned"]
    /\ UNCHANGED <<wname, wfile, werr, uploads, output, writes, lockedPaths, clock, wclean>>
    /\ UNCHANGED <<pipeVars, vizVars>>

\* app.py 99: cleaned_plot_exists = os.path.exists(cleaned_plot_path)
results_exists_cleaned(r) ==
    /\ wpc[r] = "exists_cleaned"
    /\ wpage' = [wpage EXCEPT ![r] =
                    [@ EXCEPT !.cleaned_plot_exists = Exists(output, cleaned_plot_path(wfile[r]))]]
    /\ wpc' = [wpc EXCEPT ![r] = "exists_ica"]
    /\ UNCHANGED <<wname, wfile, werr, uploads, output, writes, lockedPaths, clock, wclean>>
    /\ UNCHANGED <<pipeVars, vizVars>>

\* app.py 100: os.path.exists(ica_plot_path) and ...: the size is read only if
\* the file exists
results_exists_ica(r) ==
    /\ wpc[r] = "exists_ica"
    /\ wpc' = [wpc EXCEPT ![r] =
                  IF Exists(output, ica_plot_path(wfile[r])) THEN "getsize" ELSE "render"]
    /\ UNCHANGED <<wname, wfile, werr, uploads, output, writes, wpage, lockedPaths, clock, wclean>>
    /\ UNCHANGED <<pipeVars, vizVars>>

\* app.py 100-103: ... and os.path.getsize(ica_plot_path) > 500; getsize raises
\* when the file was removed since the exists test, which the except catches
results_getsize(r) ==
    /\ wpc[r] = "getsize"
    /\ IF Exists(output, ica_plot_path(wfile[r]))
       THEN /\ wpage' = [wpage EXCEPT ![r] =
                            [@ EXCEPT !.ica_plot_exists =
                                  SizeOf(output, ica_plot_path(wfile[r])) > SizeThreshold]]
            /\ wpc' = [wpc EXCEPT ![r] = "render"]
            /\ UNCHANGED werr
       ELSE /\ Caught(r)
            /\ UNCHANGED wpage
    /\ UNCHANGED <<wname, wfile, uploads, output, writes, lockedPaths, clock, wclean>>
    /\ UNCHANGED <<pipeVars, vizVars>>

\* app.py 105-118: render the results page
results_render(r) ==
    /\ wpc[r] = "render"
    /\ wpage' = [wpage EXCEPT ![r] = [@ EXCEPT !.rendered = TRUE, !.error = werr[r]]]
    /\ wpc' = [wpc EXCEPT ![r] = "done"]
    /\ UNCHANGED <<wname, wfile, werr, uploads, output, writes, lockedPaths, clock, wclean>>
    /\ UNCHANGED <<pipeVars, vizVars>>

NextWeb ==
    \/ TimePasses
    \/ \E r \in Req : cleanup_old_files(r)
    \/ \E r \in Req : cleanup_listdir(r)
    \/ \E r \in Req : cleanup_isfile(r)
    \/ \E r \in Req : cleanup_getmtime(r)
    \/ \E r \in Req : cleanup_remove(r)
    \/ \E r \in Req : index(r)
    \/ \E r \in Req : preprocess_read(r)
    \/ \E r \in Req : preprocess_fif(r)
    \/ \E r \in Req : preprocess_csv(r)
    \/ \E r \in Req : plot_raw(r)
    \/ \E r \in Req : plot_cleaned(r)
    \/ \E r \in Req : plot_ica(r)
    \/ \E r \in Req : results_exists_raw(r)
    \/ \E r \in Req : results_exists_cleaned(r)
    \/ \E r \in Req : results_exists_ica(r)
    \/ \E r \in Req : results_getsize(r)
    \/ \E r \in Req : results_render(r)

SpecWeb == InitWeb /\ [][NextWeb]_vars

\* ------------------------------------------------------------ properties of preprocess_eeg
Called(name) == \E i \in 1..Len(calls) : calls[i] = name

NoOutput == files = [fif |-> NoFile, csv |-> NoFile]

UnsupportedExt(p) == Lower(Splitext(p).ext) \notin {ExtEdf, ExtFif}

\* C1: a path whose lower-cased extension is neither .edf nor .fif makes
\* preprocess_eeg raise at the format check, before anything is read, filtered,
\* decomposed, scored or written.
C1_UnsupportedFormatStopsFirst ==
    (UnsupportedExt(args.input_path) /\ pc # "start") =>
        /\ pc = "raised"
        /\ exc = [type |-> "ValueError", at |-> "format"]
        /\ calls = <<>>
        /\ heap = <<>> /\ raw = 0 /\ cleaned = 0
        /\ ica = NoIca
        /\ NoOutput
        /\ result = NoResult

C1_Witness ==
    /\ pc = "raised"
    /\ exc.at = "format"
    /\ args.input_path = <<"a", ".", "t", "x", "t">>

\* C2: the component count the ICA model is built with is min(requested,
\* channel count): it exceeds neither and equals one of them.
C2_EffectiveComponentCount ==
    (ica # NoIca) =>
        LET n_chan == Len(heap[raw].ch_types)
        IN /\ ica.n_components <= n_chan
           /\ ica.n_components <= args.n_components
           /\ (ica.n_components = n_chan \/ ica.n_components = args.n_components)

C2_Witness ==
    /\ ica.fitted
    /\ args.n_components > Len(heap[raw].ch_types)
    /\ ica.n_components = Len(heap[raw].ch_types)

\* C3: when the series has no EOG channel, the exclude set stays empty, the
\* scoring procedure (find_bads_eog) is never invoked, and the returned exclude
\* list is empty.
C3_NoEogNoScoring ==
    (raw # 0 /\ PickEog(heap[raw]) = {}) =>
        /\ ica.exclude = {}
        /\ ~Called("find_bads_eog")
        /\ detect \in {"none", "skipped"}
        /\ (pc = "returned" => result.exclude = {})

C3_Witness ==
    /\ pc = "returned"
    /\ PickEog(heap[raw]) = {}
    /\ detect = "skipped"
    /\ result.exclude = {}

\* C4: a failure of the scoring procedure never aborts preprocess_eeg: the
\* exclude set becomes empty, no exception originates from the scoring, the run
\* goes on to reconstruction, and a run that returns has written both exports
\* and returns an empty exclude list.
C4_ScoringFailureIsSoft ==
    (detect = "failed") =>
        /\ ica.exclude = {}
        /\ exc.at # "find_bads_eog"
        /\ pc \in {"apply", "epoch", "save_fif", "save_csv", "return", "returned", "raised"}
        /\ (pc \notin {"apply"} => Called("apply"))
        /\ (pc = "returned" =>
               /\ result.exclude = {}
               /\ files.fif # NoFile
               /\ files.csv # NoFile)

C4_Witness ==
    /\ detect = "failed"
    /\ PickEog(heap[raw]) # {}
    /\ pc = "returned"
    /\ result.exclude = {}
    /\ files.fif # NoFile /\ files.csv # NoFile

\* C5: no stage mutates a series in place, so the series returned as raw still
\* is the recording as it was loaded (and the object that was loaded is
\* unchanged after the filter stage).
C5_RawSeriesUnaltered ==
    /\ (raw # 0 => heap[1] = loaded)
    /\ (pc = "returned" => heap[result.raw] = loaded)

\* C6: with epoching enabled the windows do not overlap, each holds exactly
\* epoch_length * sample_rate samples, and the text export is the mean over the
\* windows with shape channels x (epoch_length * sample_rate).
C6_EpochWindows ==
    (pc = "returned" /\ args.epoch) =>
        LET e == heap[result.cleaned]
            n == args.epoch_length * e.sfreq
        IN /\ e.kind = "epochs"
           /\ \A i, j \in 1..Len(e.windows) :
                 i # j => (e.windows[i][2] < e.windows[j][1] \/ e.windows[j][2] < e.windows[i][1])
           /\ \A i \in 1..Len(e.windows) : e.windows[i][2] - e.windows[i][1] + 1 = n
           /\ files.csv = [shape |-> <<Len(e.ch_types), n>>, content |-> "epoch_mean"]

\* C7: every index of the exclude set lies in [0, effective component count),
\* at every point of the run and in the returned list, whichever way the
\* detection went.
C7_ExcludeIndicesInRange ==
    /\ \A i \in ica.exclude : 0 <= i /\ i < ica.n_components
    /\ (pc = "returned" =>
           /\ detect \in {"skipped", "detected", "failed"}
           /\ \A i \in result.exclude : 0 <= i /\ i < ica.n_components)

C7_Witness ==
    /\ pc = "returned"
    /\ detect = "detected"
    /\ result.exclude # {}

\* the stage a library call belongs to
StageOf(c) ==
    CASE c \in {"read_raw_edf", "read_raw_fif"} -> 1
      [] c = "filter" -> 2
      [] c = "fit" -> 3
      [] c \in {"pick_types", "find_bads_eog"} -> 4
      [] c = "apply" -> 5
      [] c \in {"make_fixed_length_events", "Epochs"} -> 6
      [] c \in {"save_fif", "save_csv"} -> 7

StagesCalled == { StageOf(calls[i]) : i \in 1..Len(calls) }

\* C9: the stages run in the order read, filter, fit, detection,
\* reconstruction, export, none twice, each only after the previous one
\* completed; a failure of read, filter or fit ends the run at that stage with
\* nothing written.
C9_StageOrder ==
    /\ \A i, j \in 1..Len(calls) : i < j => (calls[i] # calls[j] /\ StageOf(calls[i]) <= StageOf(calls[j]))
    /\ \A k \in StagesCalled : \A m \in 1..5 : m < k => m \in StagesCalled
    /\ (2 \in StagesCalled => raw # 0)
    /\ (3 \in StagesCalled => heap[raw].proc = <<"loaded", "filtered">>)
    /\ (4 \in StagesCalled => ica.fitted)
    /\ (5 \in StagesCalled => detect # "none")
    /\ (7 \in StagesCalled => cleaned # 0)
    /\ (Called("save_csv") => files.fif # NoFile)
    /\ (exc.at \in {"read_raw_edf", "read_raw_fif", "filter", "fit"} =>
           /\ pc = "raised"
           /\ calls[Len(calls)] = exc.at
           /\ NoOutput
           /\ result = NoResult)

C9_Witness ==
    /\ pc = "raised"
    /\ exc.at = "fit"
    /\ calls = <<"read_raw_edf", "filter", "fit">>
    /\ NoOutput

\* ------------------------------------------------------------ properties of the renderers
\* C8: plot_raw_signal and plot_cleaned_signal succeed for a series of any
\* number of channels from 1 upward, plot min(5, channels) traces, trace i offset
\* by i * 100, and write one artifact.
C8_SignalPlotAnyChannelCount ==
    (vfn \in SignalPlots) =>
        /\ vexc = "none"
        /\ vpc # "raised"
        /\ (vpc = "done" =>
               /\ vartifact.written
               /\ Len(vtraces) = Min(5, vseries.n_rows)
               /\ \A k \in 1..Len(vtraces) :
                     vtraces[k].row = k - 1 /\ vtraces[k].offset = (k - 1) * 100)

\* ------------------------------------------------------------ properties of the web layer
HasPaths(r) ==
    /\ wpc[r] \in {"preprocess", "fif", "csv", "plot_raw", "plot_cleaned", "plot_ica",
                   "exists_raw", "exists_cleaned", "exists_ica", "getsize", "render", "done"}
    /\ wfile[r] # <<>>

\* C10: two results requests for different uploaded file names (the names the
\* uploads were saved under) get disjoint sets of output paths, and no output
\* path is written by both.
C10_DisjointOutputPaths ==
    \A r1, r2 \in Req :
        (r1 # r2 /\ wfile[r1] # wfile[r2] /\ HasPaths(r1) /\ HasPaths(r2)) =>
            /\ OutputPaths(wfile[r1]) \cap OutputPaths(wfile[r2]) = {}
            /\ ~\E p \in OutputPaths(wfile[r1]) : <<p, r1>> \in writes /\ <<p, r2>> \in writes
====
